---- MODULE Spec2Model ----
(***************************************************************************)
(* Model of the simple-multi-chat plugin: the hooks of                      *)
(* simple_multi_chat.py (fast_reply, before_cat_stores_episodic_memory,     *)
(* before_cat_sends_message) and the endpoints of api.py (create_chat,      *)
(* get_points_metadata_only_chat, get_points_metadata_only_message,         *)
(* del_chat, changeNameChat, giveAll) running as concurrent tasks against   *)
(* the two vector collections "chat" and "episodic".                        *)
(*                                                                          *)
(* Python dicts are functions with string keys, Python strings that the     *)
(* code transforms (names, titles, contents) are sequences of characters,   *)
(* lists are sequences.  Every store call of a handler is one step of the   *)
(* task that runs it; Spec interleaves the steps of the tasks freely,       *)
(* SpecSeq runs one request at a time.  SpecRace, SpecHist, SpecWindow and  *)
(* SpecResolve start one operation from the stores it may meet: two         *)
(* resolvers at once, the history endpoints on any records, the reconciler  *)
(* on many turns, the resolver on any sessions.                             *)
(***************************************************************************)
EXTENDS Integers, Sequences, FiniteSets, TLC

\* ------------------------------------------------------------------ bounds
\* ids the "chat" collection ever hands out (ids are never reused)
MaxPoints == 3
\* ids the "episodic" collection ever hands out
MaxEpisodic == 2
\* requests (endpoint calls and inbound messages) a behaviour starts
MaxRequests == 2

\* turns of one text in one chat the store holds when a reply arrives: one
\* more than the reconciler's scroll returns
MaxTurns == 11

\* the request handlers that may run at once
Tasks == {1, 2}
Users == {"alice", "bob"}

\* ------------------------------------------------------------- settings
\* MultiChatSettings.default_chat_name ("New Unnamed Chat", shortened)
default_chat_name == <<"N", "e", "w">>
\* values of MultiChatSettings.max_chats the model starts from
MaxChatsValues == {-1, 0, 1}
\* limit= of the scrolls over the "chat" collection
ScrollLimit == 10000
\* limit= of the scroll over the "episodic" collection in the reconciler
EpisodicLimit == 10

\* ------------------------------------------------------ python helpers
\* d[k] = v on a dict
Put(d, k, v) == (k :> v) @@ d
\* d.update(e)
Update(d, e) == e @@ d
\* d.get(k, default)
Get(d, k, default) == IF k \in DOMAIN d THEN d[k] ELSE default

RECURSIVE LStrip(_, _)
LStrip(s, chars) ==
    IF s # <<>> /\ Head(s) \in chars THEN LStrip(Tail(s), chars) ELSE s
RECURSIVE RStrip(_, _)
RStrip(s, chars) ==
    IF s # <<>> /\ s[Len(s)] \in chars THEN RStrip(SubSeq(s, 1, Len(s) - 1), chars) ELSE s
\* str.strip(chars)
Strip(s, chars) == RStrip(LStrip(s, chars), chars)
\* the characters str.strip() with no argument removes
Whitespace == {" "}

\* generated_title.strip().strip('"').strip("'")
CleanTitle(generated_title) ==
    Strip(Strip(Strip(generated_title, Whitespace), {"\""}), {"'"})

\* ------------------------------------------------------------- the store
VARIABLES
    serial,         \* the scheduler runs one request at a time
    max_chats,      \* settings["max_chats"]
    registered,     \* "chat" in cat.memory.vectors.collections
    chat,           \* the "chat" collection: point id -> payload
    chat_next,      \* the next id the "chat" collection hands out
    episodic,       \* the "episodic" collection: point id -> payload
    epi_next,       \* the next id the "episodic" collection hands out
    now,            \* the clock time.time() reads: it advances when a request starts
    started,        \* the number of requests started so far
    umj,            \* per user: cat.working_memory.user_message_json
    wm_chat_id,     \* per user: cat.working_memory.chat_id (0: never set)
    history,        \* per user: cat.working_memory.history
    prevDoc,        \* per user: the chat_id of the user's last resolver call
                    \* for a message without chat_id, 0 once a session was
                    \* created by an endpoint, renamed, auto-named or deleted
    task            \* per task: position and local variables of its handler

vars == <<serial, max_chats, registered, chat, chat_next, episodic, epi_next,
          now, started, umj, wm_chat_id, history, prevDoc, task>>

config == <<serial, max_chats>>
store == <<chat, chat_next, episodic, epi_next>>
memory == <<umj, wm_chat_id, history>>

EmptyDict == [k \in {} |-> 0]

\* a point as the store returns it
Point(coll, id) == [id |-> id, payload |-> coll[id]]

RECURSIVE SortedIds(_)
SortedIds(S) ==
    IF S = {} THEN <<>>
    ELSE LET m == CHOOSE x \in S : \A y \in S : x <= y
         IN <<m>> \o SortedIds(S \ {m})

\* collection._qdrant_filter_from_dict(f): every key of f matches in metadata
Matches(payload, f) ==
    \A k \in DOMAIN f :
        k \in DOMAIN payload.metadata /\ payload.metadata[k] = f[k]

\* vector_db.scroll(collection, scroll_filter=f, limit)[0]: in id order
Scroll(coll, f, limit) ==
    LET ids == SortedIds({i \in DOMAIN coll : Matches(coll[i], f)})
        n == IF Len(ids) < limit THEN Len(ids) ELSE limit
    IN [k \in 1..n |-> Point(coll, ids[k])]

\* vector_db.retrieve(collection, ids=[id]): the points that exist
Retrieve(coll, id) ==
    IF id \in DOMAIN coll THEN <<Point(coll, id)>> ELSE <<>>

\* collections[name].add_point(content, vector, metadata) under a fresh id
AddPoint(coll, id, content, metadata) ==
    (id :> [page_content |-> content, metadata |-> metadata]) @@ coll

\* vector_db.overwrite_payload(collection, payload, points=[id])
OverwritePayload(coll, id, page_content, metadata) ==
    [coll EXCEPT ![id] = [page_content |-> page_content, metadata |-> metadata]]

\* vector_db.delete(collection, points_selector): the points left
DeletePoints(coll, ids) == [i \in DOMAIN coll \ ids |-> coll[i]]

\* ------------------------------------------------------------- the tasks
IdleTask ==
    [pc |-> "idle", user |-> "alice", in |-> EmptyDict, points |-> <<>>,
     res |-> "none", out |-> EmptyDict, id |-> 0, doc |-> 0, time |-> 0,
     llm |-> [raised |-> FALSE, title |-> <<>>]]

\* the locals of a request that starts at pc, called by u with input in
Start(pc, u, in) ==
    [IdleTask EXCEPT !.pc = pc, !.user = u, !.in = in]

\* the scheduler lets task t take a step
CanRun(t) == serial => \A o \in Tasks \ {t} : task[o].pc = "idle"

\* task t may start a request: the host gives a request to the first idle task
CanStart(t) ==
    /\ CanRun(t)
    /\ task[t].pc = "idle"
    /\ \A o \in Tasks : o < t => task[o].pc # "idle"
    /\ started < MaxRequests

\* the ids a caller may name: those handed out so far and one never handed out
KnownIds == 1..(IF chat_next <= MaxPoints THEN chat_next ELSE MaxPoints)

NoSession == [u \in Users |-> 0]

\* ensure_chat_collection_exists: registers the collection, or logs the
\* failure and leaves it unregistered
EnsureChatCollectionExists(after) ==
    IF registered THEN after = TRUE ELSE after \in BOOLEAN

\* ------------------------------------------------------------ create_chat
\* the request bodies create_chat is called with (metadata: Dict)
CreateInputs ==
    << EmptyDict,
       ("metadata" :> ("name" :> <<"b">>)),
       ("metadata" :> ("deleted" :> TRUE)),
       ("metadata" :> ("source" :> "bob")) >>

\* the metadata create_chat stores, from the request body
CreateMetadata(u, metadata, when) ==
    LET nested == Get(metadata, "metadata", EmptyDict)
        m0 == ("source" :> u) @@ ("when" :> when)
                  @@ ("content" :> Get(metadata, "content", <<>>))
        m1 == Update(m0, nested)
        m2 == IF Get(m1, "name", <<>>) = <<>>
              THEN Put(m1, "name", default_chat_name) ELSE m1
        m3 == IF "deleted" \notin DOMAIN m2 THEN Put(m2, "deleted", FALSE) ELSE m2
        content == m3["content"]
        content_for_embedding ==
            IF content = <<>> \/ Strip(content, Whitespace) = <<>>
            THEN m3["name"] ELSE content
    IN Put(m3, "content", content_for_embedding)

\* the points of a scroll result that are not flagged deleted
NotDeleted(points) ==
    SelectSeq(points, LAMBDA p : ~Get(p.payload.metadata, "deleted", FALSE))

\* the cap check of create_chat on the non-deleted points
OverLimit(matched_points) ==
    max_chats # -1 /\ Len(matched_points) >= max_chats

\* create_chat up to the scroll of the caller's points
CreateChatScroll(t, u, metadata) ==
    /\ CanStart(t)
    /\ started' = started + 1
    /\ now' = now + 1
    /\ \E ok \in BOOLEAN :
        /\ EnsureChatCollectionExists(ok)
        /\ registered' = ok
        /\ IF ~ok
           THEN task' = [task EXCEPT ![t] =
                    [Start("cc_ret", u, metadata) EXCEPT !.res = "raised"]]
           ELSE task' = [task EXCEPT ![t] =
                    [Start("cc_scrolled", u, CreateMetadata(u, metadata, now))
                        EXCEPT !.points = Scroll(chat, ("source" :> u), ScrollLimit)]]
    /\ UNCHANGED <<config, store, memory, prevDoc>>

\* create_chat from the scroll result on: the first chat, the cap, the insert
CreateChatAdd(t) ==
    /\ CanRun(t)
    /\ task[t].pc = "cc_scrolled"
    /\ LET points == task[t].points
           qdrant_payload_metadata == task[t].in
       IN IF points # <<>> /\ OverLimit(NotDeleted(points))
          THEN /\ task' = [task EXCEPT ![t].pc = "cc_ret", ![t].res = "capacity"]
               /\ UNCHANGED <<store, prevDoc>>
          ELSE /\ chat_next <= MaxPoints
               /\ chat' = AddPoint(chat, chat_next, qdrant_payload_metadata["content"],
                                   qdrant_payload_metadata)
               /\ chat_next' = chat_next + 1
               /\ prevDoc' = NoSession
               /\ task' = [task EXCEPT ![t].pc = "cc_ret", ![t].res = "ok",
                                       ![t].id = chat_next]
               /\ UNCHANGED <<episodic, epi_next>>
    /\ UNCHANGED <<config, registered, now, started, memory>>

\* --------------------------------------------------------- changeNameChat
\* the names changeNameChat is called with
RenameNames == {<<"b">>}

\* changeNameChat without its ownership test
IsOwnerMutant(metadata, u) == TRUE

\* the ownership test of changeNameChat
IsOwner(metadata, u) == metadata["source"] = u

\* changeNameChat up to retrieve(...)[0]
ChangeNameRetrieve(t, u, chat_id, name) ==
    /\ CanStart(t)
    /\ started' = started + 1
    /\ now' = now + 1
    /\ \E ok \in BOOLEAN :
        /\ EnsureChatCollectionExists(ok)
        /\ registered' = ok
    /\ LET found == Retrieve(chat, chat_id)
           call == Start("rn_read", u, ("chat_id" :> chat_id) @@ ("name" :> name))
       IN IF found = <<>>
          THEN task' = [task EXCEPT ![t] = [call EXCEPT !.pc = "rn_ret", !.res = "raised"]]
          ELSE task' = [task EXCEPT ![t] = [call EXCEPT !.points = found]]
    /\ UNCHANGED <<config, store, memory, prevDoc>>

\* changeNameChat from the retrieved point on
ChangeNameWrite(t) ==
    /\ CanRun(t)
    /\ task[t].pc = "rn_read"
    /\ LET point == task[t].points[1]
           updated_metadata == Put(point.payload.metadata, "name", task[t].in["name"])
       IN IF ~IsOwner(point.payload.metadata, task[t].user)
          THEN /\ task' = [task EXCEPT ![t].pc = "rn_ret", ![t].res = "false"]
               /\ UNCHANGED <<chat, prevDoc>>
          ELSE IF point.id \notin DOMAIN chat
          THEN /\ task' = [task EXCEPT ![t].pc = "rn_ret", ![t].res = "raised"]
               /\ UNCHANGED <<chat, prevDoc>>
          ELSE /\ chat' = OverwritePayload(chat, point.id,
                              Get(point.payload, "page_content", <<" ">>), updated_metadata)
               /\ prevDoc' = NoSession
               /\ task' = [task EXCEPT ![t].pc = "rn_ret", ![t].res = "true"]
    /\ UNCHANGED <<config, registered, chat_next, episodic, epi_next, now, started, memory>>

\* --------------------------------------------------------------- del_chat
\* del_chat: the delete of the chat point.  A delete by id of a point that
\* does not exist is accepted by the store; while the collection could not be
\* bootstrapped the store may raise, which the except clause turns into False.
\* points keeps the record the delete removed, if there was one.
DelChatPoint(t, u, chat_id) ==
    /\ CanStart(t)
    /\ started' = started + 1
    /\ now' = now + 1
    /\ \E ok \in BOOLEAN :
        /\ EnsureChatCollectionExists(ok)
        /\ registered' = ok
        /\ \E raises \in (IF ok THEN {FALSE} ELSE BOOLEAN) :
            LET call == [Start("dl_chat", u, ("chat_id" :> chat_id))
                            EXCEPT !.points = Retrieve(chat, chat_id)]
            IN IF raises
               THEN /\ task' = [task EXCEPT ![t] =
                            [call EXCEPT !.pc = "dl_ret", !.res = "false"]]
                    /\ UNCHANGED <<chat, prevDoc>>
               ELSE /\ chat' = DeletePoints(chat, {chat_id})
                    /\ prevDoc' = NoSession
                    /\ task' = [task EXCEPT ![t] = call]
    /\ UNCHANGED <<config, chat_next, episodic, epi_next, memory>>

\* del_chat: the cascade to the caller's episodic records of the chat
DelChatEpisodic(t) ==
    /\ CanRun(t)
    /\ task[t].pc = "dl_chat"
    /\ LET query_filter == ("user_id" :> task[t].user) @@ ("chat_id" :> task[t].in["chat_id"])
       IN episodic' = DeletePoints(episodic,
                         {i \in DOMAIN episodic : Matches(episodic[i], query_filter)})
    /\ task' = [task EXCEPT ![t].pc = "dl_ret", ![t].res = "true"]
    /\ UNCHANGED <<config, registered, chat, chat_next, epi_next, now, started, memory, prevDoc>>

\* ------------------------------------------------------------- fast_reply
\* the texts of inbound messages
Texts == {"hi"}

\* the inbound messages: with or without a chat_id
Messages ==
    {("text" :> x) : x \in Texts}
        \cup {("text" :> x) @@ ("chat_id" :> c) : x \in Texts, c \in KnownIds}

\* the host puts the inbound message into the user's working memory
MessageArrives(t, u, m) ==
    /\ CanStart(t)
    /\ started' = started + 1
    /\ now' = now + 1
    /\ umj' = [umj EXCEPT ![u] = m]
    /\ task' = [task EXCEPT ![t] = Start("fr_start", u, m)]
    /\ UNCHANGED <<config, registered, store, wm_chat_id, history, prevDoc>>

\* fast_reply naming the session it creates after its empty content
FastReplyMetadataMutant(u, when) ==
    ("source" :> u) @@ ("when" :> when) @@ ("content" :> <<>>)
        @@ ("name" :> <<>>) @@ ("deleted" :> FALSE)

\* the metadata fast_reply gives the session it creates
FastReplyMetadata(u, when) ==
    LET m0 == ("source" :> u) @@ ("when" :> when) @@ ("content" :> <<>>)
        m1 == Update(m0, ("name" :> default_chat_name) @@ ("deleted" :> FALSE))
        m2 == IF "deleted" \notin DOMAIN m1 THEN Put(m1, "deleted", FALSE) ELSE m1
        content == m2["content"]
        content_for_embedding ==
            IF content = <<>> \/ Strip(content, Whitespace) = <<>>
            THEN m2["name"] ELSE content
    IN Put(m2, "content", content_for_embedding)

\* fast_reply's loop without its test of the deleted flag
DefaultNamedMutant(points) ==
    SelectSeq(points, LAMBDA p :
        Get(p.payload.metadata, "name", <<>>) = default_chat_name)

\* the points fast_reply's loop accepts: not deleted and default-named
DefaultNamed(points) ==
    SelectSeq(points, LAMBDA p :
        /\ ~Get(p.payload.metadata, "deleted", FALSE)
        /\ Get(p.payload.metadata, "name", <<>>) = default_chat_name)

\* the id the loop leaves in user_message_json["chat_id"]: every accepted
\* point assigns it, so the last one stays
LoopChoice(accepted) == accepted[Len(accepted)].id

\* fast_reply up to the scroll of the user's points
FastReplyScroll(t) ==
    /\ CanRun(t)
    /\ task[t].pc = "fr_start"
    /\ \E ok \in BOOLEAN :
        /\ EnsureChatCollectionExists(ok)
        /\ registered' = ok
        /\ LET u == task[t].user
           IN IF "chat_id" \in DOMAIN umj[u]
              THEN task' = [task EXCEPT ![t].pc = "fr_set"]
              ELSE IF ~ok
              THEN task' = [task EXCEPT ![t].pc = "fr_err", ![t].res = "raised"]
              ELSE task' = [task EXCEPT ![t].pc = "fr_scrolled",
                                ![t].time = now,
                                ![t].points = Scroll(chat, ("source" :> u), ScrollLimit)]
    /\ UNCHANGED <<config, store, now, started, memory, prevDoc>>

\* fast_reply from the scroll result on: reuse a default-named session or
\* create one, and put its id into user_message_json
FastReplyResolve(t) ==
    /\ CanRun(t)
    /\ task[t].pc = "fr_scrolled"
    /\ LET u == task[t].user
           accepted == DefaultNamed(task[t].points)
           havechat == accepted # <<>>
           qdrant_payload_metadata == FastReplyMetadata(u, task[t].time)
       IN IF havechat
          THEN /\ umj' = [umj EXCEPT ![u] = Put(@, "chat_id", LoopChoice(accepted))]
               /\ task' = [task EXCEPT ![t].pc = "fr_set"]
               /\ UNCHANGED store
          ELSE /\ chat_next <= MaxPoints
               /\ chat' = AddPoint(chat, chat_next, qdrant_payload_metadata["content"],
                                   qdrant_payload_metadata)
               /\ chat_next' = chat_next + 1
               /\ umj' = [umj EXCEPT ![u] = Put(@, "chat_id", chat_next)]
               /\ task' = [task EXCEPT ![t].pc = "fr_set", ![t].id = chat_next]
               /\ UNCHANGED <<episodic, epi_next>>
    /\ UNCHANGED <<config, registered, now, started, wm_chat_id, history, prevDoc>>

\* fast_reply's last two lines: chat_id goes into the working memory
FastReplySet(t) ==
    /\ CanRun(t)
    /\ task[t].pc = "fr_set"
    /\ LET u == task[t].user
       IN IF "chat_id" \notin DOMAIN umj[u]
          THEN /\ task' = [task EXCEPT ![t].pc = "fr_err", ![t].res = "raised"]
               /\ UNCHANGED wm_chat_id
          ELSE /\ wm_chat_id' = [wm_chat_id EXCEPT ![u] = umj[u]["chat_id"]]
               /\ task' = [task EXCEPT ![t].pc = "fr_ret", ![t].res = "ok",
                                       ![t].doc = umj[u]["chat_id"]]
    /\ UNCHANGED <<config, registered, store, now, started, umj, history, prevDoc>>

\* ------------------------------------- before_cat_stores_episodic_memory
\* the metadata the hook gives the document of the user's message; when the
\* message has no chat_id the hook raises and the host keeps its own metadata
EpisodicMetadata(u, message, text, when) ==
    IF "chat_id" \notin DOMAIN message
    THEN ("when" :> when)
    ELSE ("when" :> when) @@ ("user_id" :> u) @@ ("chat_id" :> message["chat_id"])
             @@ ("text" :> text) @@ ("bot" :> "")

\* the host stores the user's message in the episodic collection
StoreEpisodic(t) ==
    /\ CanRun(t)
    /\ task[t].pc = "fr_ret"
    /\ epi_next <= MaxEpisodic
    /\ LET u == task[t].user
           page_content == task[t].in["text"]
       IN /\ episodic' = AddPoint(episodic, epi_next, page_content,
                                  EpisodicMetadata(u, umj[u], page_content, now))
          /\ epi_next' = epi_next + 1
          /\ prevDoc' = IF "chat_id" \in DOMAIN task[t].in
                        THEN prevDoc ELSE [prevDoc EXCEPT ![u] = task[t].doc]
    /\ task' = [task EXCEPT ![t].pc = "stored"]
    /\ UNCHANGED <<config, registered, chat, chat_next, now, started, memory>>

\* ----------------------------------------------- before_cat_sends_message
\* message.text: the reply the agent produced in the task
Reply == <<"r1", "r2">>

\* what cat.llm(prompt) does: it raises, or returns a title
LLMOutcomes ==
    {[raised |-> TRUE, title |-> <<>>]}
        \cup {[raised |-> FALSE, title |-> x] :
                x \in {<<>>, <<"\"", "\"">>, <<" ", "\"", "T", "\"">>, default_chat_name}}

\* auto-naming on every turn, whatever the name
NeedsNameMutant(chat_name) == TRUE

\* the test that starts auto-naming: the name is still the default one
NeedsName(chat_name) == chat_name = default_chat_name

\* auto-naming: the read of the session named by the working memory
AutoNameRetrieve(t) ==
    /\ CanRun(t)
    /\ task[t].pc = "stored"
    /\ \E ok \in BOOLEAN :
        /\ EnsureChatCollectionExists(ok)
        /\ registered' = ok
    /\ LET chat_id == wm_chat_id[task[t].user]
           found == IF chat_id = 0 THEN <<>> ELSE Retrieve(chat, chat_id)
       IN IF found # <<>> /\ NeedsName(Get(found[1].payload.metadata, "name", <<>>))
          THEN task' = [task EXCEPT ![t].pc = "sm_llm", ![t].points = found]
          ELSE task' = [task EXCEPT ![t].pc = "sm_scroll", ![t].points = <<>>]
    /\ UNCHANGED <<config, store, now, started, memory, prevDoc>>

\* the title is written when the LLM returned one that is not empty once cleaned
WritesTitle(outcome) ==
    ~outcome.raised /\ outcome.title # <<>> /\ CleanTitle(outcome.title) # <<>>

\* auto-naming without its try/except: a failure of the LLM ends the hook
AfterAutoNamingMutant(outcome) == IF outcome.raised THEN "sm_ret" ELSE "sm_scroll"

\* where the hook goes on after the LLM call: the except clause logs a
\* failure and the reconciliation follows
AfterAutoNaming(outcome) == "sm_scroll"

\* auto-naming: the LLM call and the overwrite of the session's name
AutoNameWrite(t, outcome) ==
    /\ CanRun(t)
    /\ task[t].pc = "sm_llm"
    /\ LET chat_point == task[t].points[1]
           updated_metadata ==
               Put(chat_point.payload.metadata, "name", CleanTitle(outcome.title))
       IN IF WritesTitle(outcome) /\ chat_point.id \in DOMAIN chat
          THEN /\ chat' = OverwritePayload(chat, chat_point.id,
                              Get(chat_point.payload, "page_content", <<" ">>),
                              updated_metadata)
               /\ prevDoc' = NoSession
          ELSE UNCHANGED <<chat, prevDoc>>
    /\ task' = [task EXCEPT ![t].pc = AfterAutoNaming(outcome), ![t].points = <<>>,
                            ![t].llm = outcome]
    /\ UNCHANGED <<config, registered, chat_next, episodic, epi_next, now, started, memory>>

RECURSIVE FirstLatest(_)
\* sorted(points, key=when, reverse=True)[0]: the first point of the
\* greatest when (the sort is stable)
FirstLatest(points) ==
    IF Len(points) = 1 THEN points[1]
    ELSE LET rest == FirstLatest(Tail(points))
         IN IF points[1].payload.metadata["when"] >= rest.payload.metadata["when"]
            THEN points[1] ELSE rest

\* the reconciler's scroll for the record of the current turn
ReconcileScroll(t) ==
    /\ CanRun(t)
    /\ task[t].pc = "sm_scroll"
    /\ LET u == task[t].user
           query_filter == ("chat_id" :> wm_chat_id[u]) @@ ("user_id" :> u)
                               @@ ("text" :> umj[u]["text"])
           points == Scroll(episodic, query_filter, EpisodicLimit)
       IN IF points = <<>>
          THEN task' = [task EXCEPT ![t].pc = "sm_ret", ![t].res = "dropped"]
          ELSE task' = [task EXCEPT ![t].pc = "sm_found",
                                    ![t].points = <<FirstLatest(points)>>]
    /\ UNCHANGED <<config, registered, store, now, started, memory, prevDoc>>

\* the reply goes into the bot field of the record found
ReconcileEpisodic(t) ==
    /\ CanRun(t)
    /\ task[t].pc = "sm_found"
    /\ LET thePoint == task[t].points[1]
           updated_metadata == Put(thePoint.payload.metadata, "bot", Reply[t])
       IN IF thePoint.id \notin DOMAIN episodic
          THEN /\ task' = [task EXCEPT ![t].pc = "sm_ret", ![t].res = "raised"]
               /\ UNCHANGED episodic
          ELSE /\ episodic' = OverwritePayload(episodic, thePoint.id,
                                  Get(thePoint.payload, "page_content", ""),
                                  updated_metadata)
               /\ task' = [task EXCEPT ![t].pc = "sm_bot", ![t].id = thePoint.id]
    /\ UNCHANGED <<config, registered, chat, chat_next, epi_next, now, started, memory, prevDoc>>

\* the read of the session for last_update
ReconcileRetrieve(t) ==
    /\ CanRun(t)
    /\ task[t].pc = "sm_bot"
    /\ LET found == Retrieve(chat, wm_chat_id[task[t].user])
       IN IF found = <<>>
          THEN task' = [task EXCEPT ![t].pc = "sm_ret", ![t].res = "raised"]
          ELSE task' = [task EXCEPT ![t].pc = "sm_chat", ![t].points = found,
                                    ![t].time = now]
    /\ UNCHANGED <<config, registered, store, now, started, memory, prevDoc>>

\* the overwrite of the session with last_update
ReconcileLastUpdate(t) ==
    /\ CanRun(t)
    /\ task[t].pc = "sm_chat"
    /\ LET chat_point == task[t].points[1]
           updated_metadata == Put(chat_point.payload.metadata, "last_update", task[t].time)
       IN IF chat_point.id \notin DOMAIN chat
          THEN /\ task' = [task EXCEPT ![t].pc = "sm_ret", ![t].res = "raised"]
               /\ UNCHANGED chat
          ELSE /\ chat' = OverwritePayload(chat, chat_point.id,
                              Get(chat_point.payload, "page_content", <<" ">>),
                              updated_metadata)
               /\ task' = [task EXCEPT ![t].pc = "sm_ret", ![t].res = "ok",
                                       ![t].doc = chat_point.id]
    /\ UNCHANGED <<config, registered, chat_next, episodic, epi_next, now, started, memory, prevDoc>>

\* ------------------------------------------ get_points_metadata_only_chat
\* the collection ids the list endpoints are called with
CollectionIds == {"chat", "episodic", "nope"}

\* list-sessions without its condition on the deleted flag
ChatListFilterMutant(u) == ("source" :> u)

\* the filter of list-sessions: owned by the caller and not flagged deleted
ChatListFilter(u) == ("source" :> u) @@ ("deleted" :> FALSE)

\* [{"id": p.id, "metadata": p.payload.get("metadata", {})} for p in points]
MatchedPoints(points) ==
    [k \in 1..Len(points) |->
        [id |-> points[k].id, metadata |-> Get(points[k].payload, "metadata", EmptyDict)]]

\* the body the list endpoints answer with
ListResponse(matched_points) ==
    IF matched_points = <<>>
    THEN ("points" :> <<>>) @@ ("count" :> 0) @@ ("message" :> "No points found")
    ELSE ("points" :> matched_points) @@ ("count" :> Len(matched_points))

\* get_points_metadata_only_chat: the caller's sessions that are not deleted
GetPointsMetadataOnlyChat(t, u, collection_id) ==
    /\ CanStart(t)
    /\ started' = started + 1
    /\ now' = now + 1
    /\ \E ok \in BOOLEAN :
        /\ IF collection_id = "chat"
           THEN EnsureChatCollectionExists(ok)
           ELSE ok = registered
        /\ registered' = ok
        /\ LET call == Start("ls_ret", u, ("collection_id" :> collection_id))
               collection == IF collection_id = "chat" THEN ok
                             ELSE collection_id = "episodic"
               coll == IF collection_id = "chat" THEN chat ELSE episodic
               points == Scroll(coll, ChatListFilter(u), ScrollLimit)
           IN IF ~collection
              THEN task' = [task EXCEPT ![t] = [call EXCEPT !.res = "notfound"]]
              ELSE task' = [task EXCEPT ![t] =
                       [call EXCEPT !.res = "ok",
                                    !.out = ListResponse(MatchedPoints(points))]]
    /\ UNCHANGED <<config, store, memory, prevDoc>>

\* --------------------------------------- get_points_metadata_only_message
RECURSIVE SortedByWhen(_)
\* matched_points.sort(key=when): ascending, equal keys keep their order
SortedByWhen(matched_points) ==
    IF matched_points = <<>> THEN <<>>
    ELSE LET k == CHOOSE i \in 1..Len(matched_points) :
                    \A j \in 1..Len(matched_points) :
                        \/ matched_points[i].metadata["when"] < matched_points[j].metadata["when"]
                        \/ /\ matched_points[i].metadata["when"] = matched_points[j].metadata["when"]
                           /\ i <= j
         IN <<matched_points[k]>>
                \o SortedByWhen(SubSeq(matched_points, 1, k - 1)
                                    \o SubSeq(matched_points, k + 1, Len(matched_points)))

\* the history entries one record contributes: both fields are read only
\* when both keys are there, else the record counts as having neither
HistoryEntries(u, metadata) ==
    LET both == "bot" \in DOMAIN metadata /\ "text" \in DOMAIN metadata
        message == IF both THEN metadata["text"] ELSE ""
    IN (IF message # "" THEN <<[who |-> u, text |-> message]>> ELSE <<>>)
           \o (IF both THEN <<[who |-> "AI", text |-> metadata["bot"]]>> ELSE <<>>)

RECURSIVE Reconstruct(_, _)
\* the loop that rebuilds cat.working_memory.history from the sorted points
Reconstruct(u, matched_points) ==
    IF matched_points = <<>> THEN <<>>
    ELSE HistoryEntries(u, matched_points[1].metadata)
             \o Reconstruct(u, Tail(matched_points))

\* get_points_metadata_only_message: the caller's records of a chat, and the
\* working history rebuilt from them
GetPointsMetadataOnlyMessage(t, u, collection_id, chat_id) ==
    /\ CanStart(t)
    /\ started' = started + 1
    /\ now' = now + 1
    /\ LET call == Start("lm_ret", u,
                        ("collection_id" :> collection_id) @@ ("chat_id" :> chat_id))
           collection == IF collection_id = "chat" THEN registered
                         ELSE collection_id = "episodic"
           coll == IF collection_id = "chat" THEN chat ELSE episodic
           points == Scroll(coll, ("user_id" :> u) @@ ("chat_id" :> chat_id), ScrollLimit)
           matched_points == SortedByWhen(MatchedPoints(points))
       IN IF ~collection
          THEN /\ task' = [task EXCEPT ![t] = [call EXCEPT !.res = "notfound"]]
               /\ UNCHANGED history
          ELSE /\ history' = [history EXCEPT ![u] = Reconstruct(u, matched_points)]
               /\ task' = [task EXCEPT ![t] =
                       [call EXCEPT !.res = "ok", !.out = ListResponse(matched_points)]]
    /\ UNCHANGED <<config, registered, store, umj, wm_chat_id, prevDoc>>

\* ---------------------------------------------------------------- giveAll
\* giveAll up to retrieve(...)[0]
GiveAllRetrieve(t, u, chat_id) ==
    /\ CanStart(t)
    /\ started' = started + 1
    /\ now' = now + 1
    /\ \E ok \in BOOLEAN :
        /\ EnsureChatCollectionExists(ok)
        /\ registered' = ok
    /\ LET found == Retrieve(chat, chat_id)
           call == Start("ga_read", u, ("chat_id" :> chat_id))
       IN IF found = <<>>
          THEN task' = [task EXCEPT ![t] = [call EXCEPT !.pc = "ga_ret", !.res = "raised"]]
          ELSE task' = [task EXCEPT ![t] = [call EXCEPT !.points = found]]
    /\ UNCHANGED <<config, store, memory, prevDoc>>

\* giveAll's scroll of the caller's records of the chat, oldest first
GiveAllMatched(coll, u, chat_id) ==
    SortedByWhen(MatchedPoints(Scroll(coll,
                                      ("user_id" :> u) @@ ("chat_id" :> chat_id),
                                      ScrollLimit)))

\* giveAll's response: the records and the retrieved session's name
GiveAllResponse(point, matched_points) ==
    LET payload == Get(point.payload, "metadata", EmptyDict)
        chat_name == Get(payload, "name", <<>>)
        messages == ("points" :> matched_points) @@ ("count" :> Len(matched_points))
    IN ("Messages" :> messages) @@ ("Name" :> chat_name)

\* giveAll from the retrieved session on: the caller's records of the chat,
\* the working history rebuilt from them, the session's name
GiveAllScroll(t) ==
    /\ CanRun(t)
    /\ task[t].pc = "ga_read"
    /\ LET u == task[t].user
           matched_points == GiveAllMatched(episodic, u, task[t].in["chat_id"])
       IN /\ history' = [history EXCEPT ![u] = Reconstruct(u, matched_points)]
          /\ task' = [task EXCEPT ![t].pc = "ga_ret", ![t].res = "ok",
                          ![t].out = GiveAllResponse(task[t].points[1], matched_points)]
    /\ UNCHANGED <<config, registered, store, now, started, umj, wm_chat_id, prevDoc>>

\* ------------------------------------------------------------------ glue
RetPcs == {"cc_ret", "rn_ret", "dl_ret", "ls_ret", "lm_ret", "ga_ret", "fr_err", "sm_ret"}

\* the handler's result has been delivered
Return(t) ==
    /\ CanRun(t)
    /\ task[t].pc \in RetPcs
    /\ task' = [task EXCEPT ![t] = IdleTask]
    /\ UNCHANGED <<config, registered, store, now, started, memory, prevDoc>>

InitStore ==
    /\ max_chats \in MaxChatsValues
    /\ registered = FALSE
    /\ chat = EmptyDict
    /\ chat_next = 1
    /\ episodic = EmptyDict
    /\ epi_next = 1
    /\ now = 1
    /\ started = 0
    /\ umj = [u \in Users |-> EmptyDict]
    /\ wm_chat_id = NoSession
    /\ history = [u \in Users |-> <<>>]
    /\ prevDoc = NoSession
    /\ task = [t \in Tasks |-> IdleTask]

Init == serial = FALSE /\ InitStore

InitSeq == serial = TRUE /\ InitStore

Next ==
    \/ \E t \in Tasks, u \in Users, i \in 1..Len(CreateInputs) :
           CreateChatScroll(t, u, CreateInputs[i])
    \/ \E t \in Tasks : CreateChatAdd(t)
    \/ \E t \in Tasks, u \in Users, c \in KnownIds, n \in RenameNames :
           ChangeNameRetrieve(t, u, c, n)
    \/ \E t \in Tasks : ChangeNameWrite(t)
    \/ \E t \in Tasks, u \in Users, c \in KnownIds : DelChatPoint(t, u, c)
    \/ \E t \in Tasks : DelChatEpisodic(t)
    \/ \E t \in Tasks, u \in Users, c \in CollectionIds :
           GetPointsMetadataOnlyChat(t, u, c)
    \/ \E t \in Tasks, u \in Users, c \in CollectionIds, i \in KnownIds :
           GetPointsMetadataOnlyMessage(t, u, c, i)
    \/ \E t \in Tasks, u \in Users, c \in KnownIds : GiveAllRetrieve(t, u, c)
    \/ \E t \in Tasks : GiveAllScroll(t)
    \/ \E t \in Tasks, u \in Users, m \in Messages : MessageArrives(t, u, m)
    \/ \E t \in Tasks : FastReplyScroll(t)
    \/ \E t \in Tasks : FastReplyResolve(t)
    \/ \E t \in Tasks : FastReplySet(t)
    \/ \E t \in Tasks : StoreEpisodic(t)
    \/ \E t \in Tasks : AutoNameRetrieve(t)
    \/ \E t \in Tasks, o \in LLMOutcomes : AutoNameWrite(t, o)
    \/ \E t \in Tasks : ReconcileScroll(t)
    \/ \E t \in Tasks : ReconcileEpisodic(t)
    \/ \E t \in Tasks : ReconcileRetrieve(t)
    \/ \E t \in Tasks : ReconcileLastUpdate(t)
    \/ \E t \in Tasks : Return(t)

\* every interleaving of the tasks' steps
Spec == Init /\ [][Next]_vars

\* one request at a time
SpecSeq == InitSeq /\ [][Next]_vars

\* two resolver invocations of one user, both for a message without chat_id,
\* about to start; the user has no session, another user may have one
InitRace ==
    /\ serial = FALSE
    /\ max_chats \in MaxChatsValues
    /\ registered = TRUE
    /\ episodic = EmptyDict
    /\ epi_next = 1
    /\ now = 1
    /\ started = MaxRequests
    /\ wm_chat_id = NoSession
    /\ history = [u \in Users |-> <<>>]
    /\ prevDoc = NoSession
    /\ \E u \in Users, x \in Texts :
        /\ umj = [v \in Users |-> IF v = u THEN ("text" :> x) ELSE EmptyDict]
        /\ task = [t \in Tasks |-> Start("fr_start", u, ("text" :> x))]
        /\ \/ chat = EmptyDict /\ chat_next = 1
           \/ \E v \in Users \ {u} :
                /\ chat = AddPoint(EmptyDict, 1, default_chat_name, FastReplyMetadata(v, 1))
                /\ chat_next = 2

NextRace ==
    \/ \E t \in Tasks : FastReplyScroll(t)
    \/ \E t \in Tasks : FastReplyResolve(t)
    \/ \E t \in Tasks : FastReplySet(t)

\* the interleavings of the two resolver invocations
SpecRace == InitRace /\ [][NextRace]_vars

\* the metadata of the records the store may hold for chat 1: written by the
\* episodic hook (text and bot both there, the reply filled in or not), or
\* by another writer of the same collection, with either field missing
HistMetadata ==
    {("when" :> w) @@ ("user_id" :> u) @@ ("chat_id" :> 1) @@ tx @@ bt :
        w \in 1..MaxEpisodic, u \in Users,
        tx \in {EmptyDict} \cup {("text" :> x) : x \in {"", "hi"}},
        bt \in {EmptyDict} \cup {("bot" :> b) : b \in {"", "r1"}}}

\* the working history before the call: empty, or what a conversation left
PriorHistories == {<<>>, <<[who |-> "AI", text |-> "old"]>>}

\* a store with one session and up to MaxEpisodic records, a working history,
\* and one call of a history endpoint to come
InitHist ==
    /\ serial = TRUE
    /\ max_chats = -1
    /\ registered = TRUE
    /\ chat = AddPoint(EmptyDict, 1, default_chat_name, FastReplyMetadata("alice", 1))
    /\ chat_next = 2
    /\ \E n \in 0..MaxEpisodic :
        /\ episodic \in [1..n -> {[page_content |-> Get(m, "text", ""), metadata |-> m] :
                                     m \in HistMetadata}]
        /\ epi_next = n + 1
    /\ now = MaxEpisodic + 1
    /\ started = MaxRequests - 1
    /\ umj = [u \in Users |-> EmptyDict]
    /\ wm_chat_id = NoSession
    /\ \E h \in PriorHistories : history = [u \in Users |-> h]
    /\ prevDoc = NoSession
    /\ task = [t \in Tasks |-> IdleTask]

NextHist ==
    \/ \E t \in Tasks, u \in Users, c \in CollectionIds, i \in KnownIds :
           GetPointsMetadataOnlyMessage(t, u, c, i)
    \/ \E t \in Tasks, u \in Users, c \in KnownIds : GiveAllRetrieve(t, u, c)
    \/ \E t \in Tasks : GiveAllScroll(t)
    \/ \E t \in Tasks : Return(t)

\* the history endpoints called on any store of records
SpecHist == InitHist /\ [][NextHist]_vars

\* the when of the record at place i of the scroll order, of n records of
\* which the latest is at place k: the store scrolls in the order of its
\* point ids, which says nothing about the order of the turns
WhenAt(i, k, n) == IF i = k THEN n ELSE IF i < k THEN i ELSE i - 1

\* a user has sent the same text n times in one chat; the earlier turns are
\* closed, the record of the current turn is stored and its reply arrives
InitWindow ==
    /\ serial = TRUE
    /\ max_chats = -1
    /\ registered = TRUE
    /\ chat_next = 2
    /\ started = MaxRequests
    /\ history = [u \in Users |-> <<>>]
    /\ prevDoc = NoSession
    /\ \E u \in Users, x \in Texts, n \in 1..MaxTurns : \E k \in 1..n :
        LET message == ("text" :> x) @@ ("chat_id" :> 1)
        IN /\ chat = AddPoint(EmptyDict, 1, <<"b">>,
                              Put(FastReplyMetadata(u, 1), "name", <<"b">>))
           /\ episodic = [i \in 1..n |->
                  [page_content |-> x,
                   metadata |-> Put(EpisodicMetadata(u, message, x, WhenAt(i, k, n)),
                                    "bot", IF i = k THEN "" ELSE "r0")]]
           /\ epi_next = n + 1
           /\ now = n + 1
           /\ umj = [v \in Users |-> IF v = u THEN message ELSE EmptyDict]
           /\ wm_chat_id = [v \in Users |-> IF v = u THEN 1 ELSE 0]
           /\ task = [t \in Tasks |->
                  IF t = 1
                  THEN [Start("sm_scroll", u, message) EXCEPT !.res = "ok", !.doc = 1]
                  ELSE IdleTask]

NextWindow ==
    \/ \E t \in Tasks : ReconcileScroll(t)
    \/ \E t \in Tasks : ReconcileEpisodic(t)
    \/ \E t \in Tasks : ReconcileRetrieve(t)
    \/ \E t \in Tasks : ReconcileLastUpdate(t)
    \/ \E t \in Tasks : Return(t)

\* the reconciliation of a turn whose text was sent up to MaxTurns times
SpecWindow == InitWindow /\ [][NextWindow]_vars

\* the sessions the store may hold when a message arrives: of any user,
\* default-named or renamed, flagged deleted or not
ResolveSessions ==
    {[page_content |-> default_chat_name,
      metadata |-> Put(Put(FastReplyMetadata(u, 1), "name", n), "deleted", d)] :
        u \in Users, n \in {default_chat_name, <<"b">>}, d \in BOOLEAN}

\* a store of up to MaxPoints sessions and a message without chat_id that
\* has just arrived
InitResolve ==
    /\ serial = TRUE
    /\ max_chats = -1
    /\ registered = TRUE
    /\ \E n \in 0..MaxPoints :
        /\ chat \in [1..n -> ResolveSessions]
        /\ chat_next = n + 1
    /\ episodic = EmptyDict
    /\ epi_next = 1
    /\ now = 2
    /\ started = MaxRequests
    /\ wm_chat_id = NoSession
    /\ history = [u \in Users |-> <<>>]
    /\ prevDoc = NoSession
    /\ \E u \in Users, x \in Texts :
        /\ umj = [v \in Users |-> IF v = u THEN ("text" :> x) ELSE EmptyDict]
        /\ task = [t \in Tasks |->
               IF t = 1 THEN Start("fr_start", u, ("text" :> x)) ELSE IdleTask]

\* the resolver called on any store of sessions
SpecResolve == InitResolve /\ [][NextRace]_vars

\* ================================================================ claims
\* the user's sessions that are not flagged deleted
ActiveOf(u) ==
    {i \in DOMAIN chat :
        chat[i].metadata["source"] = u /\ chat[i].metadata["deleted"] = FALSE}

\* the user's active sessions that carry the default name
DefaultOf(u) ==
    {i \in ActiveOf(u) : chat[i].metadata["name"] = default_chat_name}

\* C1: in every reachable state every owner has at most max_chats sessions
\* with deleted == false, unless max_chats == -1.
C1_CapInvariant ==
    \A u \in Users : max_chats = -1 \/ Cardinality(ActiveOf(u)) <= max_chats

\* the caller's active sessions when the call of task t began (requests run
\* one at a time, so they are today's without the one the call created)
ActiveBefore(t) == ActiveOf(task[t].user) \ {task[t].id}

\* C2: a create-session call that runs alone fails with the capacity error
\* if and only if max_chats # -1 and the caller's count of non-deleted
\* sessions is >= max_chats at the time of the call.
C2_CreateFailsIffAtCap ==
    \A t \in Tasks :
        task[t].pc = "cc_ret" /\ task[t].res \in {"ok", "capacity"}
            => (task[t].res = "capacity"
                    <=> (max_chats # -1 /\ Cardinality(ActiveBefore(t)) >= max_chats))

C4_ResolverStoresDefaultSession ==
    \A t \in Tasks :
        task[t].pc = "fr_ret" /\ "chat_id" \notin DOMAIN task[t].in
            => LET u == task[t].user
               IN /\ wm_chat_id[u] = task[t].doc
                  /\ task[t].doc \in DefaultOf(u)
                  /\ (task[t].id # 0 => DefaultOf(u) = {task[t].id})
                  /\ (prevDoc[u] # 0 => task[t].id = 0 /\ task[t].doc = prevDoc[u])

\* C4 witness: the second of two successive calls reuses the first one's session
C4_Witness ==
    \E t \in Tasks :
        /\ task[t].pc = "fr_ret" /\ "chat_id" \notin DOMAIN task[t].in
        /\ prevDoc[task[t].user] # 0
        /\ task[t].doc = prevDoc[task[t].user]

\* C5: when max_chats # -1 and the user already has max_chats or more
\* non-deleted sessions, a resolver call for a message without chat_id
\* creates no session.
C5_ResolverEnforcesCap ==
    \A t \in Tasks :
        task[t].pc = "fr_ret" /\ task[t].id # 0
            => max_chats = -1 \/ Cardinality(ActiveBefore(t)) < max_chats

\* C6: when the bootstrap of the collection fails, the resolver called for a
\* message without chat_id returns normally, creates no session and leaves
\* chat_id unset in the working memory.
C6_BootstrapFailureSwallowed ==
    \A t \in Tasks :
        /\ task[t].pc \in {"fr_ret", "fr_err"}
        /\ "chat_id" \notin DOMAIN task[t].in
        /\ ~registered
        => /\ task[t].pc = "fr_ret"
           /\ task[t].id = 0
           /\ wm_chat_id[task[t].user] = 0

\* the episodic records of the turn the reconciler of task t works on
TurnRecords(t) ==
    LET u == task[t].user
    IN {e \in DOMAIN episodic :
            /\ "user_id" \in DOMAIN episodic[e].metadata
            /\ episodic[e].metadata["user_id"] = u
            /\ episodic[e].metadata["chat_id"] = wm_chat_id[u]
            /\ episodic[e].metadata["text"] = umj[u]["text"]}

\* C7: when the LLM title call raised in a reconciliation that runs alone on a
\* default-named session, the reconciler ends normally with the name still
\* the default one, the reply in the bot field of the turn's episodic record
\* and last_update set to the time it read.
C7_LlmFailureIsolated ==
    \A t \in Tasks :
        task[t].pc = "sm_ret" /\ task[t].llm.raised
            => LET c == wm_chat_id[task[t].user]
               IN /\ task[t].res = "ok"
                  /\ c \in DOMAIN chat
                  /\ chat[c].metadata["name"] = default_chat_name
                  /\ task[t].id \in TurnRecords(t)
                  /\ episodic[task[t].id].metadata["bot"] = Reply[t]
                  /\ "last_update" \in DOMAIN chat[c].metadata
                  /\ chat[c].metadata["last_update"] = now

\* C7 witness: a reconciliation whose LLM call raised has ended
C7_Witness ==
    \E t \in Tasks :
        /\ task[t].pc = "sm_ret" /\ task[t].llm.raised
        /\ episodic[task[t].id].metadata["bot"] = Reply[t]

\* a step of the reconciler of task t
ReconcilerStep(t) ==
    /\ task[t].pc \in {"stored", "sm_llm", "sm_scroll", "sm_found", "sm_bot", "sm_chat"}
    /\ task'[t] # task[t]

\* the step of task t in which the LLM returned a title
TitleStep(t) ==
    task[t].pc = "sm_llm" /\ task'[t].pc # "sm_llm" /\ ~task'[t].llm.raised

\* the name of session c
NameOf(coll, c) == coll[c].metadata["name"]

\* C8 as claimed: in reconciliations that run alone, a title the LLM returns
\* non-empty replaces the default name, whatever the title, and a name that
\* is not the default one is never changed by a reconciled turn.
C8_AnyTitleNamesOnce ==
    [][\A t \in Tasks :
        LET c == wm_chat_id[task[t].user]
        IN ReconcilerStep(t) /\ c \in DOMAIN chat
            => /\ c \in DOMAIN chat'
               /\ (NameOf(chat, c) # default_chat_name
                      => NameOf(chat', c) = NameOf(chat, c))
               /\ (TitleStep(t) /\ task'[t].llm.title # <<>>
                      => NameOf(chat', c) # default_chat_name)]_vars

\* a title that, stripped of surrounding whitespace and quotes, is neither
\* empty nor the default name
ProperTitle(title) ==
    CleanTitle(title) # <<>> /\ CleanTitle(title) # default_chat_name

\* C8 amended: the same for the titles that, stripped of surrounding
\* whitespace and quotes, are neither empty nor the default name: such a
\* title replaces the default name, stripped, and no reconciled turn changes
\* a name that is not the default one.
C8_ProperTitleNamesOnce ==
    [][\A t \in Tasks :
        LET c == wm_chat_id[task[t].user]
        IN ReconcilerStep(t) /\ c \in DOMAIN chat
            => /\ c \in DOMAIN chat'
               /\ (NameOf(chat, c) # default_chat_name
                      => NameOf(chat', c) = NameOf(chat, c))
               /\ (TitleStep(t) /\ ProperTitle(task'[t].llm.title)
                      => /\ NameOf(chat, c) = default_chat_name
                         /\ NameOf(chat', c) = CleanTitle(task'[t].llm.title)
                         /\ NameOf(chat', c) # default_chat_name)]_vars

\* C8 witness: a second turn has been reconciled on a session that the first
\* turn named
C8_Witness ==
    \E t \in Tasks :
        LET c == wm_chat_id[task[t].user]
        IN /\ task[t].pc = "sm_ret" /\ task[t].res = "ok"
           /\ c \in DOMAIN chat
           /\ NameOf(chat, c) = <<"T">>
           /\ Cardinality({e \in DOMAIN episodic :
                  /\ "chat_id" \in DOMAIN episodic[e].metadata
                  /\ episodic[e].metadata["chat_id"] = c
                  /\ episodic[e].metadata["bot"] # ""}) = 2

\* a step of changeNameChat in task t
RenameStep(t) ==
    task[t].pc \in {"idle", "rn_read"} /\ task'[t].pc \in {"rn_read", "rn_ret"}

\* the session the rename of task t retrieved belongs to another user
RenamesForeign(t) ==
    /\ task'[t].points # <<>>
    /\ task'[t].points[1].payload.metadata["source"] # task'[t].user

\* C9: a rename of an existing session whose source is not the caller
\* returns false and changes no session record and no episodic record.
C9_RenameByNonOwner ==
    [][\A t \in Tasks :
        RenameStep(t) /\ RenamesForeign(t)
            => /\ chat' = chat
               /\ episodic' = episodic
               /\ (task'[t].pc = "rn_ret" => task'[t].res = "false")]_vars

\* C9 witness: a rename of another user's session has returned false
C9_Witness ==
    \E t \in Tasks :
        /\ task[t].pc = "rn_ret" /\ task[t].res = "false"
        /\ task[t].points[1].payload.metadata["source"] # task[t].user

\* C10: a rename whose chat_id matches no session record returns false,
\* without an exception.
C10_RenameMissingReturnsFalse ==
    \A t \in Tasks :
        task[t].pc = "rn_ret" /\ task[t].in["chat_id"] \notin DOMAIN chat
            => task[t].res = "false"

\* the episodic records stored for session c
RecordsOf(c) ==
    {e \in DOMAIN episodic :
        "chat_id" \in DOMAIN episodic[e].metadata /\ episodic[e].metadata["chat_id"] = c}

\* C12: a delete of a chat_id for which no session record exists returns
\* false; so does a second delete of the same chat_id.
C12_DeleteMissingReturnsFalse ==
    \A t \in Tasks :
        task[t].pc = "dl_ret" /\ task[t].points = <<>> => task[t].res = "false"

\* C13: when a delete of session c that ran alone has returned true, whoever
\* called it, no session record c and no episodic record with chat_id c exist.
C13_DeleteLeavesNothing ==
    \A t \in Tasks :
        task[t].pc = "dl_ret" /\ task[t].res = "true"
            => /\ task[t].in["chat_id"] \notin DOMAIN chat
               /\ RecordsOf(task[t].in["chat_id"]) = {}

\* the step of task t in which changeNameChat overwrites the session
RenameWrites(t) ==
    task[t].pc = "rn_read" /\ task'[t].pc = "rn_ret" /\ task'[t].res = "true"

\* C11: whatever ran between the rename's read and its overwrite, the
\* overwrite changes the name of the target and nothing else: every other
\* field of its metadata and its page content keep the values stored right
\* before the overwrite, and no other record changes.
C11_RenameChangesOnlyName ==
    [][\A t \in Tasks :
        RenameWrites(t)
            => LET c == task[t].points[1].id
               IN /\ chat' = [chat EXCEPT ![c] =
                                [page_content |-> chat[c].page_content,
                                 metadata |-> Put(chat[c].metadata, "name", task[t].in["name"])]]
                  /\ episodic' = episodic]_vars

\* the step of task t in which the reconciler writes the reply into a record
BotWrite(t) == task[t].pc = "sm_found" /\ task'[t].pc = "sm_bot"

\* C18: whenever the reconciler writes a reply into the bot field of an
\* episodic record, the record's bot field was the empty string just before
\* the write.
C18_CompletesOnlyOpenRecords ==
    [][\A t \in Tasks :
        BotWrite(t) => episodic[task'[t].id].metadata["bot"] = ""]_vars

\* C19: a reconciliation that ran alone ends in one of two ways.  If a record
\* matches the turn, the reply is in the bot field of one of them, the
\* session has last_update set to the time read, and there was no error; if
\* none matches, the reply was dropped with no error.
C19_ReconcilerEndsInOneOfTwo ==
    \A t \in Tasks :
        task[t].pc = "sm_ret"
            => LET c == wm_chat_id[task[t].user]
               IN IF TurnRecords(t) # {}
                  THEN /\ task[t].res = "ok"
                       /\ task[t].id \in TurnRecords(t)
                       /\ episodic[task[t].id].metadata["bot"] = Reply[t]
                       /\ c \in DOMAIN chat
                       /\ "last_update" \in DOMAIN chat[c].metadata
                       /\ chat[c].metadata["last_update"] = task[t].time
                  ELSE task[t].res = "dropped"

\* the open records of user u in session c: those with an empty bot field
OpenRecords(u, c) ==
    {e \in RecordsOf(c) :
        episodic[e].metadata["user_id"] = u /\ episodic[e].metadata["bot"] = ""}

\* C20: in every state in which a reply is about to enter the reconciler, at
\* most one open record exists for the user and the session of the turn.
C20_OneOpenRecordAtReply ==
    \A t \in Tasks :
        task[t].pc = "stored"
            => Cardinality(OpenRecords(task[t].user, task[t].doc)) <= 1

\* the step of task t that is a list-sessions call on the "chat" collection
ListChatsStep(t) ==
    /\ task[t].pc = "idle" /\ task'[t].pc = "ls_ret"
    /\ task'[t].in["collection_id"] = "chat"

\* C15: in every reachable state, list-sessions on the "chat" collection
\* answers with exactly the sessions whose source is the caller and whose
\* deleted flag is false, each once and with its stored metadata, and with
\* their number as count; when there is none the answer is the empty list
\* with count 0, not an error.
C15_ListReturnsActiveSessions ==
    [][\A t \in Tasks :
        ListChatsStep(t) /\ registered'
            => LET r == task'[t].out
                   ps == r["points"]
               IN /\ task'[t].res = "ok"
                  /\ r["count"] = Len(ps)
                  /\ {ps[k].id : k \in 1..Len(ps)} = ActiveOf(task'[t].user)
                  /\ Len(ps) = Cardinality(ActiveOf(task'[t].user))
                  /\ \A k \in 1..Len(ps) : ps[k].metadata = chat[ps[k].id].metadata]_vars

\* C15 witness: a list-sessions call answered with the empty list while the
\* store holds a session of the caller that is flagged deleted
C15_Witness ==
    \E t \in Tasks :
        /\ task[t].pc = "ls_ret" /\ task[t].res = "ok"
        /\ task[t].in["collection_id"] = "chat"
        /\ task[t].out["points"] = <<>> /\ task[t].out["count"] = 0
        /\ \E c \in DOMAIN chat :
            /\ chat[c].metadata["source"] = task[t].user
            /\ chat[c].metadata["deleted"] = TRUE

\* C16: export-session called with a chat_id that matches no session record
\* does not end in an unhandled internal exception.
C16_ExportMissingNotRaised ==
    \A t \in Tasks :
        task[t].pc = "ga_ret" /\ task[t].in["chat_id"] \notin DOMAIN chat
            => task[t].res # "raised"

\* the caller's records of chat c, as points
RecordsFor(u, c) ==
    {e \in RecordsOf(c) :
        "user_id" \in DOMAIN episodic[e].metadata /\ episodic[e].metadata["user_id"] = u}

RECURSIVE AscendingByWhen(_)
\* the records of a set in ascending order of when (of id, for equal when)
AscendingByWhen(S) ==
    IF S = {} THEN <<>>
    ELSE LET m == CHOOSE x \in S : \A y \in S :
                    \/ episodic[x].metadata["when"] < episodic[y].metadata["when"]
                    \/ /\ episodic[x].metadata["when"] = episodic[y].metadata["when"]
                       /\ x <= y
         IN <<m>> \o AscendingByWhen(S \ {m})

\* the entries the claim gives a record: a user entry if and only if the text
\* is non-empty, an assistant entry if and only if the bot field is there
ClaimedEntries(u, metadata) ==
    (IF "text" \in DOMAIN metadata /\ metadata["text"] # ""
     THEN <<[who |-> u, text |-> metadata["text"]]>> ELSE <<>>)
        \o (IF "bot" \in DOMAIN metadata
            THEN <<[who |-> "AI", text |-> metadata["bot"]]>> ELSE <<>>)

RECURSIVE ClaimedHistory(_, _)
ClaimedHistory(u, ids) ==
    IF ids = <<>> THEN <<>>
    ELSE ClaimedEntries(u, episodic[Head(ids)].metadata) \o ClaimedHistory(u, Tail(ids))

\* a history endpoint has answered task t from the episodic collection
HistoryRebuilt(t) ==
    /\ task[t].res = "ok"
    /\ \/ task[t].pc = "ga_ret"
       \/ task[t].pc = "lm_ret" /\ task[t].in["collection_id"] = "episodic"

\* C14: when list-messages or export-session has answered, the working
\* history is exactly the entries of the caller's records of the chat in
\* ascending order of when, each record giving a user entry if and only if
\* its text is non-empty and then an assistant entry if and only if its bot
\* field is there, whatever the history held before.
C14_HistoryIsClaimedSequence ==
    \A t \in Tasks :
        HistoryRebuilt(t)
            => history[task[t].user]
                 = ClaimedHistory(task[t].user,
                       AscendingByWhen(RecordsFor(task[t].user, task[t].in["chat_id"])))

\* the reconciler of task t has written its reply into record task[t].id
ReplyWritten(t) ==
    \/ task[t].pc \in {"sm_bot", "sm_chat"}
    \/ task[t].pc = "sm_ret" /\ task[t].res = "ok"

\* C17: the record the reconciler completes has the greatest when among all
\* the stored records that match the chat, the user and the text of the
\* turn, however many there are.
C17_CompletesLatestOfAll ==
    \A t \in Tasks :
        ReplyWritten(t)
            => \A e \in TurnRecords(t) :
                episodic[e].metadata["when"] <= episodic[task[t].id].metadata["when"]

\* C22: in every reachable state the chat_id of every episodic record names
\* an existing session record whose source is the record's user_id.
C22_RecordsNameOwnSessions ==
    \A e \in DOMAIN episodic :
        "chat_id" \in DOMAIN episodic[e].metadata
            => LET c == episodic[e].metadata["chat_id"]
               IN /\ c \in DOMAIN chat
                  /\ chat[c].metadata["source"] = episodic[e].metadata["user_id"]

\* C25: every session record create_chat has produced has the caller as its
\* source and deleted = false, whatever the request body was.
C25_CreatedSessionIsCallersAndActive ==
    \A t \in Tasks :
        task[t].pc = "cc_ret" /\ task[t].res = "ok"
            => /\ chat[task[t].id].metadata["source"] = task[t].user
               /\ chat[task[t].id].metadata["deleted"] = FALSE

\* the chat of the message task t handles: the chat_id the message came
\* with, else the one fast_reply resolved for it
ChatOfTurn(t) ==
    IF "chat_id" \in DOMAIN task[t].in THEN task[t].in["chat_id"] ELSE task[t].doc

\* the step of task t in which the reconciler writes last_update
LastUpdateWrite(t) ==
    task[t].pc = "sm_chat" /\ task'[t].pc = "sm_ret" /\ task'[t].res = "ok"

\* C21: whatever other request of the user is in flight, the reply to a
\* message is written only into an episodic record of the message's chat
\* whose text is the message, and the last_update that follows is written
\* to the session of that chat.
C21_ReplyBoundToItsChat ==
    [][\A t \in Tasks :
        /\ BotWrite(t)
              => /\ episodic[task'[t].id].metadata["chat_id"] = ChatOfTurn(t)
                 /\ episodic[task'[t].id].metadata["text"] = task[t].in["text"]
        /\ LastUpdateWrite(t) => task[t].points[1].id = ChatOfTurn(t)]_vars

\* C23: when the resolver's scroll returned several non-deleted
\* default-named sessions of the user, the chat_id it selects is that of the
\* first of them in the order the store returned them.
C23_FirstMatchWins ==
    \A t \in Tasks :
        /\ task[t].pc = "fr_set"
        /\ "chat_id" \notin DOMAIN task[t].in
        /\ DefaultNamed(task[t].points) # <<>>
        => umj[task[t].user]["chat_id"] = DefaultNamed(task[t].points)[1].id

\* the rename of task r has returned true and the session still has its name
Renamed(r) ==
    /\ task[r].pc = "rn_ret" /\ task[r].res = "true"
    /\ task[r].in["chat_id"] \in DOMAIN chat
    /\ NameOf(chat, task[r].in["chat_id"]) = task[r].in["name"]

\* C24: once a rename has returned true, no step of another request that
\* read the session before the rename's write (the name overwrite of
\* auto-naming, the last_update overwrite of the reconciler) changes the
\* session's name; only a delete ends it.
C24_RenameNotLost ==
    [][\A r \in Tasks :
        Renamed(r) /\ task[r].in["chat_id"] \in DOMAIN chat'
            => NameOf(chat', task[r].in["chat_id"]) = task[r].in["name"]]_vars

\* the part of a collection whose records carry user u under the given key
OwnedBy(coll, key, u) ==
    [id \in {i \in DOMAIN coll : Get(coll[i].metadata, key, "") = u} |-> coll[id]]

\* what giveAll(chat_id) by u yields on the store (ch, ep)
ExportOn(ch, ep, u, chat_id) ==
    IF Retrieve(ch, chat_id) = <<>>
    THEN [res |-> "raised", out |-> EmptyDict]
    ELSE [res |-> "ok",
          out |-> GiveAllResponse(Retrieve(ch, chat_id)[1], GiveAllMatched(ep, u, chat_id))]

\* C26: the result of giveAll for a caller is the result it has on the store
\* with every other user's sessions and episodic records removed, so two
\* stores that agree on the caller's records give the same result and the
\* Name of another user's session is never returned.
C26_ExportDependsOnOwnRecords ==
    [][\A t \in Tasks :
        task[t].pc # "ga_ret" /\ task'[t].pc = "ga_ret"
            => [res |-> task'[t].res, out |-> task'[t].out]
                   = ExportOn(OwnedBy(chat, "source", task'[t].user),
                              OwnedBy(episodic, "user_id", task'[t].user),
                              task'[t].user, task'[t].in["chat_id"])]_vars

====
